---- MODULE Spec2Model ----
(***************************************************************************)
(* A model of the two BigQuery agents of this repository.                  *)
(*                                                                         *)
(*   bq-hitl-agent-app/agent.py  the human-in-the-loop workflow, whose     *)
(*       only code that touches session state is the tool check_query_cost *)
(*   bq_agent_app/agent.py       the single agent, whose execute_sql tool  *)
(*       is guarded by two before-tool callbacks and followed by one       *)
(*       after-tool callback                                               *)
(*                                                                         *)
(* Optional values (Python None, an absent dict key, an unset state key)   *)
(* are sequences of length 0 or 1: <<>> is absent, <<v>> is v.             *)
(***************************************************************************)
EXTENDS Integers, Sequences, FiniteSets, TLC

VARIABLES
    approval_threshold_bytes,  \* config.approval_threshold_bytes of the HITL app
    hitl_state,                \* tool_context.state of the HITL session
    hitl_call,                 \* the most recent check_query_cost call and its outcome
    last_required,             \* history: the latest call that returned APPROVAL_REQUIRED
    agent_state,               \* tool_context.state of the bq_agent_app session
    tool_call,                 \* the most recent tool invocation of bq_agent_app
    error_responses,           \* history: execute_sql responses with status ERROR
    calls                      \* history: tool invocations handled so far

vars == <<approval_threshold_bytes, hitl_state, hitl_call, last_required, agent_state,
          tool_call, error_responses, calls>>

hitl_vars == <<approval_threshold_bytes, hitl_state, hitl_call, last_required>>
agent_vars == <<agent_state, tool_call, error_responses, calls>>

None == <<>>
Some(v) == <<v>>

(***************************************************************************)
(* The warehouse, as the code sees it: the outcome of one dry-run.         *)
(***************************************************************************)
\* the byte counts a dry-run reports in this model
Estimates ==
    {0, 4999, 5000, 15000, 125000, 500000000, 999999999, 1000000000,
     1000000001, 1005000000, 1125000000, 2000000000}

\* bigquery.Client() raises, client.query() raises, the job carries no byte
\* count (total_bytes_processed is None), or the job reports b bytes
DryRunOutcomes ==
    {[kind |-> "client_error", bytes |-> None],
     [kind |-> "query_error", bytes |-> None],
     [kind |-> "no_bytes", bytes |-> None]}
    \cup {[kind |-> "ok", bytes |-> Some(b)] : b \in Estimates}

\* no dry-run was issued
NoDryRun == [kind |-> "not_issued", bytes |-> None]

(***************************************************************************)
(* bq-hitl-agent-app/agent.py: check_query_cost                            *)
(***************************************************************************)
\* the default of config.approval_threshold_bytes
approval_threshold_default == 1000000000

\* the values the deployment may configure the threshold to
ThresholdValues == {1000000, approval_threshold_default, 2000000000}

\* the query and project_id arguments: missing (None), empty, or a text
QueryArgs == {None, Some(""), Some("SELECT a"), Some("SELECT b")}
ProjectArgs == {None, Some(""), Some("proj-a"), Some("proj-b")}

\* Python truthiness of an optional string: None and "" are falsy
Falsy(arg) == arg = None \/ arg = Some("")

\* the session starts with no key set
EmptyHitlState ==
    [pending_query |-> None, pending_query_bytes |-> None,
     pending_query_project_id |-> None,
     approved_query |-> None, approved_query_project_id |-> None]

RECURSIVE Pow2Mod200(_)
\* 2^e modulo 200
Pow2Mod200(e) == IF e = 0 THEN 1 ELSE (2 * Pow2Mod200(e - 1)) % 200

RECURSIVE FloorLog2(_)
\* the p with 2^p <= m < 2^(p+1), for m >= 1
FloorLog2(m) == IF m < 2 THEN 0 ELSE 1 + FloorLog2(m \div 2)

RECURSIVE UpShift(_, _)
\* the least q' >= q with n * 2^q' >= 200, for 1 <= n < 200
UpShift(n, q) == IF n >= 200 THEN q ELSE UpShift(2 * n, q + 1)

\* Whether the double nearest to n/200 (n odd: a decimal tie x.xx5) prints, to two
\* decimals, as the upper neighbour. The double is m * 2^(-e) with 2^52 <= m < 2^53
\* the integer nearest to n * 2^e / 200; it lies above the tie when the remainder
\* of n * 2^e modulo 200 exceeds 100 and below it when the remainder is under 100.
\* A remainder of 0 means the tie is a double, and the digits round half to even.
\* (A remainder of exactly 100 needs e = 2, which no n below 2^50 has.)
TieRoundsUp(n) ==
    LET p == IF n >= 200 THEN FloorLog2(n \div 200) ELSE 0 - UpShift(n, 0)
        e == 52 - p
        rem == ((n % 200) * Pow2Mod200(e)) % 200
    IN  IF rem = 0 THEN ((n - 1) \div 2) % 2 = 1 ELSE rem > 100

\* f"{num / den:.2f}" as the number of hundredths printed: the true division is
\* correctly rounded to a double and the double is printed correctly rounded, so
\* the result is the nearest hundredth of num/den except at a decimal tie, which
\* the double's own error decides. den is 10^9 or 10^6.
format_2f_truncating(num, den) == num \div (den \div 100)

format_2f(num, den) ==
    LET unit == den \div 100
        k == num \div unit
        r == num % unit
    IN  IF 2 * r < unit THEN k
        ELSE IF 2 * r > unit THEN k + 1
        ELSE IF TieRoundsUp(2 * k + 1) THEN k + 1 ELSE k

\* line 59: if not query or not project_id
missing_arguments(query, project_id) == Falsy(query) \/ Falsy(project_id)

\* lines 60-63
missing_result ==
    [status |-> "ERROR", total_bytes_processed |-> None,
     message |-> [text |-> "Query or Project ID is missing", amount |-> None,
                  unit |-> "", bytes |-> None, detail |-> ""]]

\* line 80: total_bytes_processed >= config.approval_threshold_bytes
requires_approval_above(bytes, threshold) == bytes > threshold

requires_approval(bytes, threshold) == bytes >= threshold

\* lines 82-84
record_pending_without_project(state, query, bytes, project_id) ==
    [state EXCEPT !.pending_query = Some(query), !.pending_query_bytes = Some(bytes)]

record_pending(state, query, bytes, project_id) ==
    [state EXCEPT !.pending_query = Some(query),
                  !.pending_query_bytes = Some(bytes),
                  !.pending_query_project_id = Some(project_id)]

\* lines 86-91
approval_required_result(bytes) ==
    [status |-> "APPROVAL_REQUIRED", total_bytes_processed |-> Some(bytes),
     message |-> [text |-> "approval required", bytes |-> Some(bytes), unit |-> "GB",
                  amount |-> Some(format_2f(bytes, 1000000000)), detail |-> ""]]

\* lines 93-98
approved_result(bytes) ==
    [status |-> "APPROVED", total_bytes_processed |-> Some(bytes),
     message |-> [text |-> "no approval needed", bytes |-> Some(bytes), unit |-> "MB",
                  amount |-> Some(format_2f(bytes, 1000000)), detail |-> ""]]

\* lines 102-105
dry_run_error_result(dry) ==
    [status |-> "ERROR", total_bytes_processed |-> None,
     message |-> [text |-> "error during dry-run", amount |-> None, unit |-> "",
                  bytes |-> None, detail |-> dry.kind]]

\* lines 66-98, the body of the try: the client is built (line 69), the dry-run is
\* issued (line 71), and a job without a byte count fails the comparison of line 80
\* with a TypeError. Every raise precedes the writes of lines 82-84.
try_body(state, query, project_id, dry, threshold) ==
    IF dry.kind \in {"client_error", "query_error", "no_bytes"}
    THEN [raised |-> TRUE, ret |-> None, state |-> state,
          contacted |-> dry.kind # "client_error"]
    ELSE LET bytes == dry.bytes[1] IN
         IF requires_approval(bytes, threshold)
         THEN [raised |-> FALSE, ret |-> Some(approval_required_result(bytes)),
               state |-> record_pending(state, query, bytes, project_id),
               contacted |-> TRUE]
         ELSE [raised |-> FALSE, ret |-> Some(approved_result(bytes)),
               state |-> state, contacted |-> TRUE]

\* lines 100-105: except Exception: log and return the ERROR result. What the body
\* wrote before it raised stays written.
except_handler_reraise(body, dry) == body

except_handler(body, dry) ==
    [body EXCEPT !.raised = FALSE, !.ret = Some(dry_run_error_result(dry))]

\* lines 43-105
check_query_cost(state, query, project_id, dry, threshold) ==
    IF missing_arguments(query, project_id)
    THEN [raised |-> FALSE, ret |-> Some(missing_result), state |-> state,
          contacted |-> FALSE]
    ELSE LET body == try_body(state, query[1], project_id[1], dry, threshold) IN
         IF body.raised THEN except_handler(body, dry) ELSE body

NoHitlCall ==
    [called |-> FALSE, query |-> None, project_id |-> None, dry |-> NoDryRun,
     before |-> EmptyHitlState, raised |-> FALSE, ret |-> None, contacted |-> FALSE]

\* One call of the tool by the planner. The dry-run has an outcome only when the
\* call gets as far as the warehouse.
CheckQueryCost ==
    /\ \E query \in QueryArgs, project_id \in ProjectArgs,
          dry \in DryRunOutcomes \cup {NoDryRun} :
          /\ (dry = NoDryRun) <=> missing_arguments(query, project_id)
          /\ LET r == check_query_cost(hitl_state, query, project_id, dry,
                                       approval_threshold_bytes)
             IN  /\ hitl_state' = r.state
                 /\ hitl_call' =
                        [called |-> TRUE, query |-> query, project_id |-> project_id,
                         dry |-> dry, before |-> hitl_state, raised |-> r.raised,
                         ret |-> r.ret, contacted |-> r.contacted]
                 /\ last_required' =
                        IF r.ret # None /\ r.ret[1].status = "APPROVAL_REQUIRED"
                        THEN Some([query |-> query[1], bytes |-> dry.bytes[1],
                                   project_id |-> project_id[1]])
                        ELSE last_required
    /\ UNCHANGED approval_threshold_bytes
    /\ UNCHANGED agent_vars

(***************************************************************************)
(* bq_agent_app/agent.py: the callbacks around the toolset's tools         *)
(***************************************************************************)
\* config.dry_run_threshold_bytes
dry_run_threshold_bytes == 1000000000

\* invocations handled in one session of the model
MaxCalls == 3

\* line 22: tool_filter
ToolNames == {"execute_sql", "get_table_info", "list_table_ids", "list_dataset_ids"}

\* SQL text is a sequence of characters of this alphabet
LowerChar(c) ==
    CASE c = "D" -> "d" [] c = "E" -> "e" [] c = "L" -> "l" [] c = "T" -> "t"
      [] c = "S" -> "s" [] OTHER -> c

\* str.lower()
lower_identity(text) == text

lower(text) == [i \in 1..Len(text) |-> LowerChar(text[i])]

\* Python's  sub in text
Contains(sub, text) ==
    \E i \in 0..(Len(text) - Len(sub)) : \A j \in 1..Len(sub) : text[i + j] = sub[j]

\* the keyword of line 42
ForbiddenKeyword == <<"d", "e", "l", "e", "t", "e">>

\* the keyword in every letter case
DeleteCasings ==
    {<<a, b, c, d, e, f>> : a \in {"d", "D"}, b \in {"e", "E"}, c \in {"l", "L"},
                            d \in {"e", "E"}, e \in {"t", "T"}, f \in {"e", "E"}}

\* texts without the keyword
BenignQueries ==
    {<< >>, <<"S", "e", "l", "e", "c", "t">>, <<"d", "e", "l", "e", "t">>,
     <<"D", "E", " ", "L", "E", "T", "E">>, <<"e", "l", "e", "t", "e", "d">>}

\* the keyword alone, inside an identifier, and inside a string literal
SampleQueries ==
    BenignQueries \cup DeleteCasings
    \cup {<<"i", "s", "_">> \o v \o <<"d">> :
              v \in {<<"d", "e", "l", "e", "t", "e">>, <<"D", "E", "L", "E", "T", "E">>,
                     <<"d", "e", "l", "E", "t", "e">>}}
    \cup {<<"S", "e", "l", "e", "c", "t", " ", "'">> \o v \o <<"'">> :
              v \in {<<"d", "e", "l", "e", "t", "e">>, <<"D", "E", "L", "E", "T", "E">>,
                     <<"D", "e", "l", "e", "t", "e">>}}

\* args of an execute_sql call: each key present or absent
SqlArgs ==
    {[query |-> q, project_id |-> p] :
        q \in {None} \cup {Some(t) : t \in SampleQueries},
        p \in {None, Some("proj-a")}}

\* args of the metadata tools, which the model may still hand a query
MetadataArgs ==
    {[query |-> q, project_id |-> p] :
        q \in {None, Some(ForbiddenKeyword), Some(<<"S", "e", "l", "e", "c", "t">>)},
        p \in {None, Some("proj-a")}}

\* what a tool that ran hands back: its status, and no refusal
ToolResponses ==
    {[status |-> st, result |-> None] : st \in {None, Some("SUCCESS"), Some("ERROR")}}

DeleteRefusal ==
    [result |-> "Tool execution was blocked due to forbidden delete statement!",
     bytes |-> None]

LargeRefusal(bytes) ==
    [result |-> "Large size SQL query is forbidden", bytes |-> Some(bytes)]

\* lines 28-35
update_bigquery_api_count_any_tool(tool, tool_response, state) ==
    IF tool_response.status = Some("ERROR")
    THEN [ret |-> None,
          state |-> [state EXCEPT !.bigquery_api_failure =
                       Some((IF @ = None THEN 0 ELSE @[1]) + 1)]]
    ELSE [ret |-> None, state |-> state]

update_bigquery_api_count(tool, tool_response, state) ==
    IF tool \in {"execute_sql"} /\ tool_response.status = Some("ERROR")
    THEN [ret |-> None,
          state |-> [state EXCEPT !.bigquery_api_failure =
                       Some((IF @ = None THEN 0 ELSE @[1]) + 1)]]
    ELSE [ret |-> None, state |-> state]

\* lines 38-47; args.get("query", "") is the empty text when the key is absent
validate_sql_callback_case_sensitive(tool, args) ==
    IF tool = "execute_sql"
       /\ Contains(ForbiddenKeyword, IF args.query = None THEN << >> ELSE args.query[1])
    THEN Some(DeleteRefusal)
    ELSE None

validate_sql_callback(tool, args) ==
    IF tool = "execute_sql"
       /\ Contains(ForbiddenKeyword,
                   lower(IF args.query = None THEN << >> ELSE args.query[1]))
    THEN Some(DeleteRefusal)
    ELSE None

\* line 74: total_bytes_processed > config.dry_run_threshold_bytes
exceeds_threshold_or_equal(bytes) == bytes >= dry_run_threshold_bytes

exceeds_threshold(bytes) == bytes > dry_run_threshold_bytes

\* lines 50-83. Nothing catches what the client, the query call or the comparison
\* of line 74 (a job without a byte count) raises.
sql_query_dryrun_callback(tool, args, dry) ==
    IF tool = "execute_sql" /\ args.query # None /\ args.project_id # None
    THEN IF dry.kind # "ok"
         THEN [raised |-> TRUE, ret |-> None, issued |-> TRUE]
         ELSE IF exceeds_threshold(dry.bytes[1])
              THEN [raised |-> FALSE, ret |-> Some(LargeRefusal(dry.bytes[1])),
                    issued |-> TRUE]
              ELSE [raised |-> FALSE, ret |-> None, issued |-> TRUE]
    ELSE [raised |-> FALSE, ret |-> None, issued |-> FALSE]

\* line 99: before_tool_callback=[validate_sql_callback, sql_query_dryrun_callback];
\* the callbacks run in the order listed and the first result that is not None
\* is the tool's response
before_tool_callback_dryrun_first(tool, args, dry) ==
    LET d == sql_query_dryrun_callback(tool, args, dry) IN
    IF d.raised \/ d.ret # None THEN d
    ELSE [d EXCEPT !.ret = validate_sql_callback(tool, args)]

before_tool_callback(tool, args, dry) ==
    LET v == validate_sql_callback(tool, args) IN
    IF v # None THEN [raised |-> FALSE, ret |-> v, issued |-> FALSE]
    ELSE sql_query_dryrun_callback(tool, args, dry)

\* lines 97-99: one tool invocation of root_agent: the before-tool callbacks, the
\* tool unless one of them answered for it, then the after-tool callback on
\* whichever response there is. An exception of a callback ends the invocation.
handle_tool_call(state, tool, args, dry, tool_response) ==
    LET before == before_tool_callback(tool, args, dry) IN
    IF before.raised
    THEN [raised |-> TRUE, issued |-> before.issued, before_ret |-> None,
          ran |-> FALSE, response |-> None, after_ret |-> None, state |-> state]
    ELSE LET ran == before.ret = None
             response == IF ran THEN tool_response
                         ELSE [status |-> None, result |-> before.ret]
             after == update_bigquery_api_count(tool, response, state)
         IN  [raised |-> FALSE, issued |-> before.issued, before_ret |-> before.ret,
              ran |-> ran,
              response |-> IF after.ret = None THEN Some(response) ELSE after.ret,
              after_ret |-> after.ret, state |-> after.state]

NoResponse == [status |-> None, result |-> Some(DeleteRefusal)]

NoToolCall ==
    [called |-> FALSE, tool |-> "", args |-> [query |-> None, project_id |-> None],
     dry |-> NoDryRun, before |-> [bigquery_api_failure |-> None], raised |-> FALSE,
     issued |-> FALSE, before_ret |-> None, ran |-> FALSE, response |-> None,
     after_ret |-> None]

\* The runtime handles one call of `tool` with `args`. The warehouse answers the
\* dry-run only if one is issued, and the tool answers only if it runs.
ToolCall(tool, args) ==
    /\ calls < MaxCalls
    /\ LET issued == before_tool_callback(tool, args, NoDryRun).issued IN
       \E dry \in (IF issued THEN DryRunOutcomes ELSE {NoDryRun}) :
       LET before == before_tool_callback(tool, args, dry)
           runs == ~before.raised /\ before.ret = None
       IN  \E resp \in (IF runs THEN ToolResponses ELSE {NoResponse}) :
           LET h == handle_tool_call(agent_state, tool, args, dry, resp) IN
               /\ agent_state' = h.state
               /\ tool_call' =
                      [called |-> TRUE, tool |-> tool, args |-> args, dry |-> dry,
                       before |-> agent_state, raised |-> h.raised, issued |-> h.issued,
                       before_ret |-> h.before_ret, ran |-> h.ran,
                       response |-> h.response, after_ret |-> h.after_ret]
               /\ error_responses' =
                      IF tool = "execute_sql" /\ h.ran /\ resp.status = Some("ERROR")
                      THEN error_responses + 1 ELSE error_responses
    /\ calls' = calls + 1
    /\ UNCHANGED hitl_vars

ExecuteSqlCall == \E args \in SqlArgs : ToolCall("execute_sql", args)

MetadataToolCall ==
    \E tool \in ToolNames \ {"execute_sql"}, args \in MetadataArgs : ToolCall(tool, args)

(***************************************************************************)
(* The two programs                                                        *)
(***************************************************************************)
\* what both sessions start from, whatever the threshold is configured to
InitSessions ==
    /\ hitl_state = EmptyHitlState
    /\ hitl_call = NoHitlCall
    /\ last_required = None
    /\ agent_state = [bigquery_api_failure |-> None]
    /\ tool_call = NoToolCall
    /\ error_responses = 0
    /\ calls = 0

Init == approval_threshold_bytes \in ThresholdValues /\ InitSessions

\* bq_agent_app does not read the HITL threshold
InitAgent == approval_threshold_bytes = approval_threshold_default /\ InitSessions

NextHitl == CheckQueryCost

NextAgent == ExecuteSqlCall \/ MetadataToolCall

\* a session of the HITL workflow
SpecHitl == Init /\ [][NextHitl]_vars

\* a session of bq_agent_app
SpecAgent == InitAgent /\ [][NextAgent]_vars

\* both sessions side by side
Next == NextHitl \/ NextAgent

Spec == Init /\ [][Next]_vars

(***************************************************************************)
(* Properties of check_query_cost, checked under SpecHitl                  *)
(***************************************************************************)
\* the last call carried a query and a project id, both non-empty
HasBothArguments ==
    /\ hitl_call.called
    /\ hitl_call.query \notin {None, Some("")}
    /\ hitl_call.project_id \notin {None, Some("")}

\* the last call's dry-run succeeded with an estimate
DryRunSucceeded == HasBothArguments /\ hitl_call.dry.kind = "ok"

PendingFields(state) ==
    <<state.pending_query, state.pending_query_bytes, state.pending_query_project_id>>

C2_ErrorsAreTagged ==
    hitl_call.called =>
        /\ ~hitl_call.raised
        /\ hitl_call.ret # None
        /\ ~HasBothArguments =>
              /\ hitl_call.ret[1].status = "ERROR"
              /\ hitl_call.ret[1].message.text = "Query or Project ID is missing"
              /\ ~hitl_call.contacted
              /\ hitl_call.dry = NoDryRun
        /\ (HasBothArguments /\ hitl_call.dry.kind # "ok") =>
              /\ hitl_call.ret[1].status = "ERROR"
              /\ hitl_call.ret[1].message.text = "error during dry-run"
        /\ hitl_call.ret[1].status = "ERROR" => hitl_state = hitl_call.before

\* a dry-run without a byte count, in a session that holds a pending query
C2_Witness ==
    /\ HasBothArguments
    /\ hitl_call.dry.kind = "no_bytes"
    /\ hitl_call.ret[1].status = "ERROR"
    /\ hitl_call.before.pending_query # None
    /\ hitl_state = hitl_call.before

\* C7: a successful call reports total_bytes_processed = b, and its message gives
\* b / 10^9 in GB when the status is APPROVAL_REQUIRED and b / 10^6 in MB when it is
\* APPROVED, as the nearest number with two decimals; 2,000,000,000 bytes under a
\* threshold of 1,000,000,000 reads "2.00 GB" and 500,000,000 bytes "500.00 MB".
C7_MessageAmount ==
    DryRunSucceeded =>
        LET b == hitl_call.dry.bytes[1]
            r == hitl_call.ret[1]
            required == r.status = "APPROVAL_REQUIRED"
            hundredth == IF required THEN 10000000 ELSE 10000
            error == r.message.amount[1] * hundredth - b
        IN  /\ r.status \in {"APPROVAL_REQUIRED", "APPROVED"}
            /\ r.total_bytes_processed = Some(b)
            /\ r.message.bytes = Some(b)
            /\ r.message.unit = (IF required THEN "GB" ELSE "MB")
            /\ 2 * error <= hundredth
            /\ 2 * error >= 0 - hundredth
            /\ (b = 2000000000 /\ approval_threshold_bytes = 1000000000) =>
                   required /\ r.message.amount = Some(200)
            /\ (b = 500000000 /\ approval_threshold_bytes = 1000000000) =>
                   ~required /\ r.message.amount = Some(50000)

\* 999,999,999 bytes under the default threshold: APPROVED, "1000.00 MB"
C7_Witness ==
    /\ DryRunSucceeded
    /\ hitl_call.dry.bytes = Some(999999999)
    /\ approval_threshold_bytes = 1000000000
    /\ hitl_call.ret[1].status = "APPROVED"
    /\ hitl_call.ret[1].message.amount = Some(100000)

\* C10: the three pending fields are either all unwritten or hold the query,
\* estimate and project id of the latest call that returned APPROVAL_REQUIRED; a
\* call that returns APPROVED or ERROR leaves them as they were.
C10_PendingConsistent ==
    /\ PendingFields(hitl_state) =
           (IF last_required = None THEN <<None, None, None>>
            ELSE <<Some(last_required[1].query), Some(last_required[1].bytes),
                   Some(last_required[1].project_id)>>)
    /\ (hitl_call.called /\ hitl_call.ret # None
            /\ hitl_call.ret[1].status \in {"APPROVED", "ERROR"}) =>
           PendingFields(hitl_state) = PendingFields(hitl_call.before)

\* a low-cost check of another query left the stale pending query in place
C10_Witness ==
    /\ DryRunSucceeded
    /\ hitl_call.ret[1].status = "APPROVED"
    /\ hitl_state.pending_query \notin {None, hitl_call.query}
    /\ hitl_state.pending_query_project_id \notin {None, hitl_call.project_id}

(***************************************************************************)
(* Properties of the callbacks of bq_agent_app, checked under SpecAgent    *)
(***************************************************************************)
KeywordUpper == <<"D", "E", "L", "E", "T", "E">>

\* the text holds the letters d-e-l-e-t-e in a row, each in either case
HasDeleteInAnyCase(text) ==
    \E i \in 0..(Len(text) - 6) :
        \A j \in 1..6 : text[i + j] \in {ForbiddenKeyword[j], KeywordUpper[j]}

FailureCount(state) ==
    IF state.bigquery_api_failure = None THEN 0 ELSE state.bigquery_api_failure[1]

\* C3: an execute_sql call whose query holds 'delete' in any letter case, anywhere
\* in the text, is answered by the fixed refusal of validate_sql_callback: no
\* dry-run is issued, whatever it would have cost, and the tool does not run.
C3_DeleteBlocked ==
    (/\ tool_call.called
     /\ tool_call.tool = "execute_sql"
     /\ tool_call.args.query # None
     /\ HasDeleteInAnyCase(tool_call.args.query[1])) =>
        /\ ~tool_call.raised
        /\ tool_call.before_ret = Some(DeleteRefusal)
        /\ tool_call.response = Some([status |-> None, result |-> Some(DeleteRefusal)])
        /\ ~tool_call.issued
        /\ tool_call.dry = NoDryRun
        /\ ~tool_call.ran

\* a mixed-case keyword inside a longer text, in a call that carries a project id
C3_Witness ==
    /\ tool_call.called
    /\ tool_call.tool = "execute_sql"
    /\ tool_call.args.project_id # None
    /\ tool_call.args.query = Some(<<"i", "s", "_", "d", "e", "l", "E", "t", "e", "d">>)
    /\ tool_call.before_ret = Some(DeleteRefusal)

\* C5: bigquery_api_failure, absent counted as 0, is the number of execute_sql
\* responses with status ERROR so far: such a response adds exactly 1, any other
\* response (another tool's, another status, a refusal of a blocking callback)
\* leaves the whole state as it was, and the callback returns None, so the
\* response stands.
C5_FailureCount ==
    /\ FailureCount(agent_state) = error_responses
    /\ tool_call.called =>
          LET counted == /\ tool_call.tool = "execute_sql"
                         /\ tool_call.ran
                         /\ tool_call.response[1].status = Some("ERROR")
          IN  /\ tool_call.after_ret = None
              /\ counted => FailureCount(agent_state) = FailureCount(tool_call.before) + 1
              /\ ~counted => agent_state = tool_call.before

\* after two failures, a refusal of the dry-run callback leaves the count at 2
C5_Witness ==
    /\ agent_state.bigquery_api_failure = Some(2)
    /\ tool_call.called
    /\ tool_call.before_ret # None
    /\ tool_call.before_ret[1].bytes # None
    /\ tool_call.response[1].status = None

C6_DryRunFailureTagged ==
    (tool_call.called /\ tool_call.issued /\ tool_call.dry.kind # "ok") =>
        /\ ~tool_call.raised
        /\ tool_call.response # None
        /\ tool_call.response[1].status = Some("ERROR")

\* C9: an execute_sql call that runs with a query text to send has had its dry-run
\* evaluated, with an estimate no greater than the threshold, whether or not its
\* args carry project_id.
C9_GateAlwaysEvaluated ==
    (/\ tool_call.called
     /\ tool_call.tool = "execute_sql"
     /\ tool_call.args.query \notin {None, Some(<< >>)}
     /\ tool_call.ran) =>
        /\ tool_call.issued
        /\ tool_call.dry.kind = "ok"
        /\ tool_call.dry.bytes[1] <= dry_run_threshold_bytes

====
